---- MODULE Spec2Model ----
(***************************************************************************)
(* Spectron3000: the Dash callbacks of spectron3000/app.py, the parsers    *)
(* and the synthesizer of spectron3000/classes.py, and the session store   *)
(* ("stored-data", storage_type="session") they read and write.            *)
(*                                                                         *)
(* Conventions                                                             *)
(*   - Python's None / an absent value is the empty sequence << >>, a      *)
(*     present value v is << v >> (an option).                             *)
(*   - A str is a sequence of one-character strings.                       *)
(*   - A dict is a sequence of [key, val] entries with distinct keys, in   *)
(*     insertion order.                                                    *)
(*   - A float is a record [k, v]: k = "num" (the value v), "pow10" (the   *)
(*     value 10^v), "nan" (missing) or "str" (text that is no number).     *)
(***************************************************************************)
EXTENDS Integers, Sequences, FiniteSets, TLC

VARIABLES
    stored,     \* stored-data of every session: None or {"spectrum", "catalogs"}
    prev,       \* history: stored-data as the last call found it
    solo,       \* history: the record a session would hold had it run alone
    call,       \* the last call: its name, session and arguments
    raised,     \* the exception the last call raised, "none" when it returned
    figure,     \* what the last update_figure returned
    table,      \* what the last update_table returned
    parsed      \* what the last process_upload returned

vars == <<stored, prev, solo, call, raised, figure, table, parsed>>

\* ------------------------------------------------------------------ bounds
MaxRows == 2        \* data rows of an uploaded spectrum file
MaxCols == 3        \* tab-separated columns of an uploaded spectrum file
MaxLines == 2       \* lines of an uploaded catalog file
MaxBatch == 2       \* files of one catalog upload

Sessions == {"tabA", "tabB"}

\* ------------------------------------------------------------ small helpers
None == << >>
Some(v) == << v >>

Num(n) == [k |-> "num", v |-> n]
Pow10(n) == [k |-> "pow10", v |-> n]
NaN == [k |-> "nan", v |-> 0]
Text == [k |-> "str", v |-> 0]

Range(s) == {s[i] : i \in DOMAIN s}

Max(a, b) == IF a >= b THEN a ELSE b
Min(a, b) == IF a <= b THEN a ELSE b

\* s[from..to] as Python slices it: clipped to the sequence, never an error
Slice(s, from, to) == SubSeq(s, Min(from, Len(s) + 1), Min(to, Len(s)))

RECURSIVE LStrip(_)
LStrip(s) == IF s # << >> /\ Head(s) = " " THEN LStrip(Tail(s)) ELSE s

RECURSIVE RStrip(_)
RStrip(s) ==
    IF s # << >> /\ s[Len(s)] = " " THEN RStrip(SubSeq(s, 1, Len(s) - 1)) ELSE s

Strip(s) == LStrip(RStrip(s))

\* the index of the last / first occurrence of character c in s, 0 when absent
LastIndexOf(s, c) ==
    LET hits == {i \in DOMAIN s : s[i] = c}
    IN  IF hits = {} THEN 0 ELSE CHOOSE i \in hits : \A j \in hits : j <= i

FirstIndexOf(s, c) ==
    LET hits == {i \in DOMAIN s : s[i] = c}
    IN  IF hits = {} THEN 0 ELSE CHOOSE i \in hits : \A j \in hits : i <= j

\* sub in s
Contains(s, sub) ==
    \E i \in 0..(Len(s) - Len(sub)) : SubSeq(s, i + 1, i + Len(sub)) = sub

\* os.path.basename(filename)
basename(filename) == SubSeq(filename, LastIndexOf(filename, "/") + 1, Len(filename))

\* os.path.basename(filename).split(".")[0]
molecule_of(filename) ==
    LET b == basename(filename)
        dot == FirstIndexOf(b, ".")
    IN  IF dot = 0 THEN b ELSE SubSeq(b, 1, dot - 1)

\* ------------------------------------------------------------------- dicts
DictKeys(d) == {d[i].key : i \in DOMAIN d}

DictGet(d, key) == d[CHOOSE i \in DOMAIN d : d[i].key = key].val

\* d[key] = val: an existing key keeps its place, a new one goes last
DictSet(d, key, val) ==
    IF key \in DictKeys(d)
    THEN [i \in DOMAIN d |-> IF d[i].key = key THEN [key |-> key, val |-> val] ELSE d[i]]
    ELSE Append(d, [key |-> key, val |-> val])

\* d.update(other)
RECURSIVE DictUpdate(_, _)
DictUpdate(d, other) ==
    IF other = << >> THEN d
    ELSE DictUpdate(DictSet(d, Head(other).key, Head(other).val), Tail(other))

\* ---------------------------------------------------------- number parsing
DigitChars == {"0", "1", "2", "3", "4", "5", "6", "7", "8", "9"}

DigitVal(c) ==
    CASE c = "0" -> 0 [] c = "1" -> 1 [] c = "2" -> 2 [] c = "3" -> 3 [] c = "4" -> 4
      [] c = "5" -> 5 [] c = "6" -> 6 [] c = "7" -> 7 [] c = "8" -> 8 [] OTHER -> 9

RECURSIVE NatOf(_)
NatOf(chars) ==
    IF chars = << >> THEN 0
    ELSE 10 * NatOf(SubSeq(chars, 1, Len(chars) - 1)) + DigitVal(chars[Len(chars)])

IsNatLiteral(chars) == chars # << >> /\ \A i \in DOMAIN chars : chars[i] \in DigitChars

\* the parser's conversion of one field: empty is NaN, an integer literal is its
\* value, anything else stays text (and makes the column dtype object)
ParseField(chars) ==
    IF chars = << >> THEN NaN
    ELSE IF IsNatLiteral(chars) THEN Num(NatOf(chars))
    ELSE IF Head(chars) = "-" /\ IsNatLiteral(Tail(chars)) THEN Num(0 - NatOf(Tail(chars)))
    ELSE Text


\* ------------------------------------------------------ Spectrum.from_upload
(* An uploaded file is the decoded text: the sequence of its lines, each   *)
(* line the sequence of its characters. The inputs write numbers as        *)
(* integer literals; any other non-blank text is no number. The lines of   *)
(* a spectrum file all hold the same number of tab-separated cells.        *)

RECURSIVE SplitTab(_)
SplitTab(line) ==
    LET tab == FirstIndexOf(line, "\t")
    IN  IF tab = 0 THEN << line >>
        ELSE << SubSeq(line, 1, tab - 1) >> \o SplitTab(SubSeq(line, tab + 1, Len(line)))

\* pd.read_csv(..., sep="\t"): blank lines are skipped and header="infer" makes
\* the first line left the column names, whatever it holds
read_csv(lines) ==
    LET kept == SelectSeq(lines, LAMBDA l : l # << >>)
    IN  IF kept = << >>
        THEN [raised |-> "EmptyDataError", columns |-> << >>, rows |-> << >>]
        ELSE [raised |-> "none",
              columns |-> SplitTab(Head(kept)),
              rows |-> [i \in 1..(Len(kept) - 1) |->
                          LET cells == SplitTab(kept[i + 1])
                          IN  [j \in DOMAIN cells |-> ParseField(Strip(cells[j]))]]]

\* the dataclass Spectrum
Spectrum(x, y, comment) == [x |-> x, y |-> y, comment |-> comment]

Spectrum_from_upload(contents, filename) ==
    LET df == read_csv(contents)
    IN  IF df.raised # "none" THEN [raised |-> df.raised, obj |-> None]
        ELSE IF Len(df.columns) < 2 THEN [raised |-> "IndexError", obj |-> None]
        ELSE [raised |-> "none",
              obj |-> Some(Spectrum([i \in DOMAIN df.rows |-> df.rows[i][1]],
                                    [i \in DOMAIN df.rows |-> df.rows[i][2]],
                                    basename(filename)))]

\* ------------------------------------------------------- Catalog.from_upload

widths == <<13, 8, 8, 2, 10, 3, 7, 4, 2, 2, 2, 8, 2, 2>>

\* the column names given to the 14 fields, by position
FrequencyCol == 1
IntensityCol == 3
LowerStateEnergyCol == 5

RECURSIVE SumTo(_, _)
SumTo(w, n) == IF n = 0 THEN 0 ELSE w[n] + SumTo(w, n - 1)

\* the colspecs read_fwf derives from widths: field j is line[start : start + width]
FieldOf(line, j) == Strip(Slice(line, SumTo(widths, j - 1) + 1, SumTo(widths, j)))

\* pd.read_fwf(..., widths=widths, header=None): blank lines are skipped, every
\* other line is sliced, whatever its length
read_fwf(lines) ==
    LET kept == SelectSeq(lines, LAMBDA l : Strip(l) # << >>)
    IN  IF kept = << >> THEN [raised |-> "EmptyDataError", rows |-> << >>]
        ELSE [raised |-> "none",
              rows |-> [i \in DOMAIN kept |->
                          [j \in DOMAIN widths |-> ParseField(FieldOf(kept[i], j))]]]

Column(df, j) == [i \in DOMAIN df.rows |-> df.rows[i][j]]

IsObject(col) == \E i \in DOMAIN col : col[i].k = "str"

NaNEnergy == [k |-> "nan", MHz |-> 0, cm |-> 0]

\* (utils.MHz2cm(Frequency) + Lower state energy) / utils.kbcm, kept as the
\* expression in the two parsed numbers it is computed from
UpperStateKelvin(f, low) ==
    IF f.k = "nan" \/ low.k = "nan" THEN NaNEnergy
    ELSE [k |-> "num", MHz |-> f.v, cm |-> low.v]

\* 10**Intensity
TenToThe(i) == IF i.k = "nan" THEN NaN ELSE Pow10(i.v)

\* the dataclass Catalog with its defaults
Catalog(frequency, intensity, state_energies, molecule) ==
    [frequency |-> frequency, intensity |-> intensity,
     state_energies |-> state_energies, molecule |-> molecule,
     temperature |-> Num(300), column_density |-> Pow10(15),
     doppler |-> Num(5), Q |-> Num(1)]

Catalog_from_upload(contents, filename) ==
    LET df == read_fwf(contents)
        freq == Column(df, FrequencyCol)
        inten == Column(df, IntensityCol)
        low == Column(df, LowerStateEnergyCol)
    IN  IF df.raised # "none" THEN [raised |-> df.raised, obj |-> None]
        ELSE IF IsObject(freq) \/ IsObject(low) THEN [raised |-> "TypeError", obj |-> None]
        ELSE IF IsObject(inten) THEN [raised |-> "ValueError", obj |-> None]
        ELSE [raised |-> "none",
              obj |-> Some(Catalog(
                  freq,
                  [i \in DOMAIN inten |-> TenToThe(inten[i])],
                  [i \in DOMAIN freq |-> UpperStateKelvin(freq[i], low[i])],
                  molecule_of(filename)))]

\* classes.process_upload: the parser is chosen by the extension found in the name
spec_ext == << <<".", "t", "x", "t">>, <<".", "s", "p", "e", "c">>, <<".", "c", "s", "v">> >>
cat_ext == << <<".", "l", "i", "n">>, <<".", "c", "a", "t">> >>

process_upload(filestream, filename) ==
    IF \E i \in DOMAIN spec_ext : Contains(filename, spec_ext[i])
    THEN LET r == Spectrum_from_upload(filestream, filename)
         IN  [raised |-> r.raised, spectrum |-> r.obj, catalog |-> None]
    ELSE IF \E i \in DOMAIN cat_ext : Contains(filename, cat_ext[i])
    THEN LET r == Catalog_from_upload(filestream, filename)
         IN  [raised |-> r.raised, spectrum |-> None, catalog |-> r.obj]
    ELSE [raised |-> "UnboundLocalError", spectrum |-> None, catalog |-> None]
\* ---------------------------------------------------------------- utils.py
(* Floating-point results are kept as their class: "zero", "fin" (finite   *)
(* and not zero), "inf" or "nan". The quantities of the inputs are not     *)
(* negative, so a sign is not kept; IEEE-754 rules decide every            *)
(* operation (numpy warns on a division by zero and goes on).              *)

ClassOf(n) ==
    CASE n.k = "num" -> IF n.v = 0 THEN "zero" ELSE "fin"
      [] n.k = "pow10" -> "fin"
      [] OTHER -> "nan"

\* the class of a state energy (MHz2cm(f) + low) / kbcm
ClassOfEnergy(e) ==
    CASE e.k = "nan" -> "nan"
      [] e.MHz = 0 /\ e.cm = 0 -> "zero"
      [] OTHER -> "fin"

Mul(a, b) ==
    CASE a = "nan" \/ b = "nan" -> "nan"
      [] (a = "zero" /\ b = "inf") \/ (a = "inf" /\ b = "zero") -> "nan"
      [] a = "zero" \/ b = "zero" -> "zero"
      [] a = "inf" \/ b = "inf" -> "inf"
      [] OTHER -> "fin"

Div(a, b) ==
    CASE a = "nan" \/ b = "nan" -> "nan"
      [] (a = "zero" /\ b = "zero") \/ (a = "inf" /\ b = "inf") -> "nan"
      [] b = "zero" -> "inf"
      [] b = "inf" -> "zero"
      [] OTHER -> a

Add(a, b) ==
    CASE a = "nan" \/ b = "nan" -> "nan"
      [] a = "inf" \/ b = "inf" -> "inf"
      [] a = "zero" -> b
      [] OTHER -> a

\* np.exp(-a) and np.exp(a) for a >= 0
ExpNeg(a) == CASE a = "nan" -> "nan" [] a = "inf" -> "zero" [] OTHER -> "fin"
ExpPos(a) == CASE a = "nan" -> "nan" [] a = "inf" -> "inf" [] OTHER -> "fin"

RECURSIVE SumClasses(_)
SumClasses(s) == IF s = << >> THEN "zero" ELSE Add(Head(s), SumClasses(Tail(s)))

\* utils.boltzmann_factor(E, T) = exp(-E / (kbcm * T))
boltzmann_factor(E, T) == ExpNeg(Div(E, T))

\* utils.partition_function(state_energies, temperature)
partition_function(state_energies, temperature) ==
    SumClasses([i \in DOMAIN state_energies |->
                  boltzmann_factor(ClassOfEnergy(state_energies[i]), temperature)])

\* utils.I2S for one transition. E_lower = MHz2cm(cm2MHz(E_upper) - frequency)
\* is E_upper itself when the frequency is zero, and then the two Boltzmann
\* factors are equal and B is zero
I2S(I, Q, frequency, E_upper, T) ==
    LET E_lower == CASE E_upper = "nan" \/ frequency = "nan" -> "nan"
                     [] frequency = "zero" \/ E_upper = "inf" -> E_upper
                     [] OTHER -> "fin"
        lower == boltzmann_factor(E_lower, T)
        upper == boltzmann_factor(E_upper, T)
        diff == CASE lower = "nan" \/ upper = "nan" -> "nan"
                  [] frequency = "zero" \/ (lower = "zero" /\ upper = "zero") -> "zero"
                  [] OTHER -> "fin"
        A == Mul(I, Q)
        B == Mul(frequency, diff)
    IN  Div(A, B)

\* utils.N2flux for one transition
N2flux(N, S, v, Q, E, T) ==
    Div(Mul(Mul(N, S), Mul(v, Mul(v, v))), Mul(Q, ExpPos(Div(E, T))))

\* utils.dop2freq
dop2freq(velocity, frequency) == Mul(velocity, frequency)

\* lmfit's gaussian at one axis point:
\* (amplitude / (s2pi * sigma)) * exp(-(x - center)**2 / (2 * sigma**2))
gaussian(x, center, sigma, amplitude) ==
    LET dist == CASE x.k # "num" \/ center.k # "num" -> "nan"
                  [] x.v = center.v -> "zero"
                  [] OTHER -> "fin"
    IN  Mul(Div(amplitude, sigma), ExpNeg(Div(Mul(dist, dist), Mul(sigma, sigma))))

\* ------------------------------------------------- Catalog.generate_spectrum
\* mutant: spec_y = np.zeros(len(self.frequency))
generate_spectrum_per_line(self, spec_x) ==
    [p \in DOMAIN self.frequency |-> "zero"]

generate_spectrum(self, spec_x) ==
    LET T == ClassOf(self.temperature)
        Q == partition_function(self.state_energies, T)
        N == ClassOf(self.column_density)
        amplitude(i) ==
            LET f == ClassOf(self.frequency[i])
                E == ClassOfEnergy(self.state_energies[i])
                S == I2S(ClassOf(self.intensity[i]), Q, f, E, T)
                flux == N2flux(N, S, f, Q, E, T)
            IN  Div(flux, dop2freq(ClassOf(self.doppler), f))
    IN  [p \in DOMAIN spec_x |->
           SumClasses([i \in DOMAIN self.frequency |->
                         gaussian(spec_x[p], self.frequency[i],
                                  dop2freq(ClassOf(self.doppler), ClassOf(self.frequency[i])),
                                  amplitude(i))])]

\* Catalog.to_table_format: every attribute but the catalog lines
ignore == {"frequency", "intensity", "state_energies"}

\* mutant: nothing is ignored
to_table_format_all(self) == self

to_table_format(self) == [key \in (DOMAIN self) \ ignore |-> self[key]]

\* ------------------------------------------------------------- plotting.py
init_layout ==
    [xaxis |-> "Frequency (MHz)", yaxis |-> "Flux (Jy/beam)", hovermode |-> "closest"]

plot_spectrum(x, y, name) == [x |-> x, y |-> y, name |-> name]
\* ------------------------------------------------------ app.py: the callbacks
(* A callback result is [raised, data]: the exception it raised ("none"    *)
(* when it returned) and the value it returned. dash.exceptions'           *)
(* PreventUpdate and every other exception leave the Output unwritten.     *)

\* {"spectrum": {}, "catalogs": {}}
empty_data == [spectrum |-> None, catalogs |-> << >>]

\* data or {"spectrum": {}, "catalogs": {}}
OrEmpty(data) == IF data = None THEN empty_data ELSE data[1]

\* mutant: the record is built afresh, the stored catalogs forgotten
upload_spectrum_fresh(uploaded_file, filename, data) ==
    IF uploaded_file = None THEN [raised |-> "PreventUpdate", data |-> data]
    ELSE LET spec_obj == Spectrum_from_upload(uploaded_file[1], filename)
         IN  IF spec_obj.raised # "none" THEN [raised |-> spec_obj.raised, data |-> data]
             ELSE [raised |-> "none",
                   data |-> Some([empty_data EXCEPT !.spectrum = spec_obj.obj])]

\* mutant: the parse error is caught and the spectrum cleared
upload_spectrum_clearing(uploaded_file, filename, data) ==
    IF uploaded_file = None THEN [raised |-> "PreventUpdate", data |-> data]
    ELSE LET spec_obj == Spectrum_from_upload(uploaded_file[1], filename)
         IN  [raised |-> "none",
              data |-> Some([OrEmpty(data) EXCEPT !.spectrum = spec_obj.obj])]

upload_spectrum(uploaded_file, filename, data) ==
    IF uploaded_file = None THEN [raised |-> "PreventUpdate", data |-> data]
    ELSE LET spec_obj == Spectrum_from_upload(uploaded_file[1], filename)
         IN  IF spec_obj.raised # "none" THEN [raised |-> spec_obj.raised, data |-> data]
             ELSE [raised |-> "none",
                   data |-> Some([OrEmpty(data) EXCEPT !.spectrum = spec_obj.obj])]

\* the names bound when upload_catalog is entered: its parameters. uploaded_file
\* is a local of the function (the loop variable), bound only once the loop runs
upload_catalog_bound == {"uploaded_files", "filenames", "data"}

\* for uploaded_file, filename in zip(uploaded_files, filenames): ...
RECURSIVE catalog_loop(_, _, _)
catalog_loop(uploaded_files, filenames, catalog_dict) ==
    IF uploaded_files = << >> \/ filenames = << >>
    THEN [raised |-> "none", dict |-> catalog_dict]
    ELSE LET cat_obj == Catalog_from_upload(Head(uploaded_files), Head(filenames))
         IN  IF cat_obj.raised # "none"
             THEN [raised |-> cat_obj.raised, dict |-> catalog_dict]
             ELSE catalog_loop(Tail(uploaded_files), Tail(filenames),
                               DictSet(catalog_dict, cat_obj.obj[1].molecule, cat_obj.obj[1]))

\* line 115 reads uploaded_file, not uploaded_files: the read of a local that is
\* not bound yet raises UnboundLocalError, whatever was uploaded; lines 117-125
\* follow in the ELSE branch
upload_catalog(uploaded_files, filenames, data) ==
    IF "uploaded_file" \notin upload_catalog_bound
    THEN [raised |-> "UnboundLocalError", data |-> data]
    ELSE LET loop == catalog_loop(uploaded_files[1], filenames, << >>)
         IN  IF loop.raised # "none" THEN [raised |-> loop.raised, data |-> data]
             ELSE [raised |-> "none",
                   data |-> Some([OrEmpty(data) EXCEPT
                                    !.catalogs = DictUpdate(@, loop.dict)])]

no_figure == [data |-> << >>, layout |-> init_layout]

update_figure(data) ==
    IF data = None \/ data[1].spectrum = None
    THEN [raised |-> "TypeError", data |-> no_figure]
    ELSE LET spec_obj == data[1].spectrum[1]
             catalogs == data[1].catalogs
             observation == plot_spectrum(spec_obj.x, spec_obj.y, spec_obj.comment)
             simulated(i) ==
                 LET cat_obj == catalogs[i].val
                 IN  plot_spectrum(spec_obj.x,
                                   generate_spectrum(cat_obj, spec_obj.x),
                                   cat_obj.molecule)
         IN  [raised |-> "none",
              data |-> [data |-> << observation >> \o
                                   [i \in DOMAIN catalogs |-> simulated(i)],
                        layout |-> init_layout]]

update_table(data) ==
    IF data = None THEN [raised |-> "TypeError", data |-> << >>]
    ELSE IF Len(data[1].catalogs) = 0 THEN [raised |-> "PreventUpdate", data |-> << >>]
    ELSE [raised |-> "none",
          data |-> [i \in DOMAIN data[1].catalogs |->
                      to_table_format(data[1].catalogs[i].val)]]

\* Output("stored-data", "data") with storage_type="session": the value a callback
\* returns replaces the record of the session the callback ran for
\* mutant: one process-wide record, shared by every session
StoreWriteGlobal(store, session, data) == [t \in DOMAIN store |-> data]

StoreWrite(store, session, data) == [store EXCEPT ![session] = data]

\* the callbacks that take the DataTable's data as an Input or a State: none does
table_callbacks == { }
\* ------------------------------------------------------------------ inputs
DigitChar(d) ==
    CASE d = 0 -> "0" [] d = 1 -> "1" [] d = 2 -> "2" [] d = 3 -> "3" [] d = 4 -> "4"
      [] d = 5 -> "5" [] d = 6 -> "6" [] d = 7 -> "7" [] d = 8 -> "8" [] OTHER -> "9"

RECURSIVE NatChars(_)
NatChars(n) ==
    IF n < 10 THEN << DigitChar(n) >> ELSE NatChars(n \div 10) \o << DigitChar(n % 10) >>

IntChars(n) == IF n < 0 THEN << "-" >> \o NatChars(0 - n) ELSE NatChars(n)

RJust(chars, w) ==
    [i \in 1..Max(w, Len(chars)) |->
        IF i <= w - Len(chars) THEN " " ELSE chars[i - Max(0, w - Len(chars))]]

RECURSIVE JoinTab(_)
JoinTab(cells) ==
    IF Len(cells) = 1 THEN cells[1] ELSE cells[1] \o << "\t" >> \o JoinTab(Tail(cells))

\* data row r of a spectrum file: x = 100, 101, ..., y = r, any further column 7
NumRow(r, ncols) ==
    JoinTab([j \in 1..ncols |->
               IF j = 1 THEN NatChars(99 + r) ELSE IF j = 2 THEN NatChars(r) ELSE << "7" >>])

HeaderRow(ncols) == JoinTab([j \in 1..ncols |-> << "c", DigitChar(j) >>])

SpectrumFile(header, nrows, ncols) ==
    (IF header THEN << HeaderRow(ncols) >> ELSE << >>) \o
    [r \in 1..nrows |-> NumRow(r, ncols)]

\* a header and two rows written with spaces instead of tabs
SpacedFile == << <<"f", " ", "i">>, <<"1", "0", "0", " ", "1">>, <<"1", "0", "1", " ", "2">> >>

SpectrumFiles ==
    {SpectrumFile(h, n, c) : h \in BOOLEAN, n \in 0..MaxRows, c \in 1..MaxCols}
    \cup {SpacedFile}

\* one well-formed catalog line: the 14 fields right-justified in their widths
FwfLine(freq, logint, elow) ==
    LET field(j) ==
            CASE j = FrequencyCol -> IntChars(freq)
              [] j = IntensityCol -> IntChars(logint)
              [] j = LowerStateEnergyCol -> IntChars(elow)
              [] OTHER -> << "1" >>
        RECURSIVE upto(_)
        upto(j) == IF j = 0 THEN << >> ELSE upto(j - 1) \o RJust(field(j), widths[j])
    IN  upto(Len(widths))

LineA == FwfLine(100, 0, 50)
LineB == FwfLine(101, -3, 0)
LineZero == FwfLine(0, 0, 0)
\* LineA cut inside its first field, and after its second
LineCut12 == SubSeq(LineA, 1, 12)
LineCut21 == SubSeq(LineA, 1, 21)
\* a line whose Frequency field is no number
LineText == RJust(<<"a", "b", "c">>, widths[1]) \o SubSeq(LineA, widths[1] + 1, Len(LineA))

GoodLines == {LineA, LineB, LineZero}
CatalogLines == GoodLines \cup {LineCut12, LineCut21, LineText}

RECURSIVE SeqsUpTo(_, _)
SeqsUpTo(S, n) ==
    IF n = 0 THEN {<< >>}
    ELSE LET shorter == SeqsUpTo(S, n - 1)
         IN  shorter \cup {Append(q, e) : q \in shorter, e \in S}

CatalogFiles == SeqsUpTo(CatalogLines, MaxLines)

CatNames ==
    { <<"H", "2", "O", ".", "c", "a", "t">>,
      <<"C", "O", ".", "l", "i", "n">>,
      <<"d", "/", "H", "2", "O", ".", "v", "1", ".", "c", "a", "t">> }

SpecNames ==
    { <<"o", "b", "s", ".", "t", "x", "t">>,
      <<"d", "/", "r", "u", "n", ".", "c", "s", "v">> }

OtherNames == { <<"n", "o", "t", "e", "s">> }
\* the uploads the sessions make
UploadedSpectra ==
    {SpectrumFile(TRUE, MaxRows, 2), SpectrumFile(FALSE, MaxRows, 2),
     SpectrumFile(TRUE, 1, 1), << >>}

GoodUploads ==
    { [file |-> << LineA >>, name |-> <<"H", "2", "O", ".", "c", "a", "t">>],
      [file |-> << LineB, LineA >>, name |-> <<"C", "O", ".", "l", "i", "n">>],
      [file |-> << LineZero >>,
       name |-> <<"d", "/", "H", "2", "O", ".", "v", "1", ".", "c", "a", "t">>] }

BadUploads == { [file |-> << LineText >>, name |-> <<"b", "a", "d", ".", "c", "a", "t">>] }

Batches == SeqsUpTo(GoodUploads \cup BadUploads, MaxBatch) \ {<< >>}

FilesOf(batch) == [i \in DOMAIN batch |-> batch[i].file]
NamesOf(batch) == [i \in DOMAIN batch |-> batch[i].name]

EditedMolecules == { <<"H", "2", "O">>, <<"u", "n", "k", "n", "o", "w", "n">> }
EditedFields == {"temperature", "column_density", "doppler"}
EditedValues == {-5, 3}

\* ----------------------------------------------------------------- actions
NoParse == [raised |-> "none", spectrum |-> None, catalog |-> None]

NoCall ==
    [name |-> "none", session |-> "none", present |-> FALSE, files |-> << >>,
     filenames |-> << >>, molecule |-> << >>, field |-> "none", value |-> 0]

\* a callback's return value reaches its Output only when nothing was raised
Commit(session, result) ==
    /\ raised' = result.raised
    /\ prev' = stored
    /\ stored' = IF result.raised = "none"
                 THEN StoreWrite(stored, session, result.data) ELSE stored

UploadSpectrum(s, uploaded_file, filename) ==
    /\ call' = [NoCall EXCEPT !.name = "upload_spectrum", !.session = s,
                              !.present = (uploaded_file # None),
                              !.files = uploaded_file,
                              !.filenames = IF uploaded_file = None THEN << >>
                                            ELSE << filename >>]
    /\ Commit(s, upload_spectrum(uploaded_file, filename, stored[s]))
    /\ solo' = [solo EXCEPT ![s] = upload_spectrum(uploaded_file, filename, solo[s]).data]
    /\ figure' = no_figure /\ table' = << >> /\ parsed' = NoParse

UploadCatalog(s, uploaded_files) ==
    /\ call' = [NoCall EXCEPT !.name = "upload_catalog", !.session = s,
                              !.present = (uploaded_files # None),
                              !.files = IF uploaded_files = None THEN << >>
                                        ELSE FilesOf(uploaded_files[1]),
                              !.filenames = IF uploaded_files = None THEN << >>
                                            ELSE NamesOf(uploaded_files[1])]
    /\ LET files == IF uploaded_files = None THEN None
                    ELSE Some(FilesOf(uploaded_files[1]))
           names == IF uploaded_files = None THEN << >> ELSE NamesOf(uploaded_files[1])
       IN  /\ Commit(s, upload_catalog(files, names, stored[s]))
           /\ solo' = [solo EXCEPT ![s] = upload_catalog(files, names, solo[s]).data]
    /\ figure' = no_figure /\ table' = << >> /\ parsed' = NoParse

UpdateFigure(s) ==
    /\ call' = [NoCall EXCEPT !.name = "update_figure", !.session = s]
    /\ raised' = update_figure(stored[s]).raised
    /\ figure' = update_figure(stored[s]).data
    /\ table' = << >> /\ parsed' = NoParse
    /\ prev' = stored
    /\ UNCHANGED <<stored, solo>>

UpdateTable(s) ==
    /\ call' = [NoCall EXCEPT !.name = "update_table", !.session = s]
    /\ raised' = update_table(stored[s]).raised
    /\ table' = update_table(stored[s]).data
    /\ figure' = no_figure /\ parsed' = NoParse
    /\ prev' = stored
    /\ UNCHANGED <<stored, solo>>

\* the user edits a cell of the editable DataTable: the callbacks in
\* table_callbacks run, and there are none
EditTable(s, molecule, field, value) ==
    /\ call' = [NoCall EXCEPT !.name = "edit_table", !.session = s,
                              !.molecule = molecule, !.field = field, !.value = value]
    /\ table_callbacks = { }
    /\ raised' = "none"
    /\ figure' = no_figure /\ table' = << >> /\ parsed' = NoParse
    /\ prev' = stored
    /\ UNCHANGED <<stored, solo>>

\* classes.process_upload, applied to one pending file
ProcessUpload ==
    /\ call.name = "pending"
    /\ call' = [call EXCEPT !.name = "process_upload"]
    /\ parsed' = process_upload(call.files[1], call.filenames[1])
    /\ raised' = parsed'.raised
    /\ UNCHANGED <<stored, prev, solo, figure, table>>

\* ---------------------------------------------------------- specifications
Init ==
    /\ stored = [s \in Sessions |-> None]
    /\ prev = stored
    /\ solo = stored
    /\ call = NoCall
    /\ raised = "none"
    /\ figure = no_figure
    /\ table = << >>
    /\ parsed = NoParse

\* what the user of session s can make happen
SessionStep(s) ==
    \/ \E f \in {None} \cup {Some(u) : u \in UploadedSpectra}, n \in SpecNames :
          UploadSpectrum(s, f, n)
    \/ \E b \in {None} \cup {Some(u) : u \in Batches} : UploadCatalog(s, b)
    \/ UpdateFigure(s)
    \/ UpdateTable(s)
    \/ \E m \in EditedMolecules, f \in EditedFields, v \in EditedValues :
          EditTable(s, m, f, v)

Next == \E s \in Sessions : SessionStep(s)

Spec == Init /\ [][Next]_vars

\* the records a session store can hold: no record, or a spectrum (or none yet)
\* with the catalogs a batch of well-formed uploads leaves
StoredSpectra ==
    {None} \cup
    {Spectrum_from_upload(SpectrumFile(TRUE, n, 2), <<"o", "b", "s", ".", "t", "x", "t">>).obj :
        n \in 0..MaxRows}

StoredCatalogs ==
    {catalog_loop(FilesOf(b), NamesOf(b), << >>).dict : b \in SeqsUpTo(GoodUploads, MaxBatch)}

StoredRecords ==
    {None} \cup {Some([spectrum |-> sp, catalogs |-> cd]) :
                    sp \in StoredSpectra, cd \in StoredCatalogs}

\* one session, started from any of these records
InitStored ==
    /\ \E r \in StoredRecords :
          stored = [t \in Sessions |-> IF t = "tabA" THEN r ELSE None]
    /\ prev = stored
    /\ solo = stored
    /\ call = NoCall
    /\ raised = "none"
    /\ figure = no_figure
    /\ table = << >>
    /\ parsed = NoParse

NextStored == SessionStep("tabA")

SpecStored == InitStored /\ [][NextStored]_vars

\* the parsers as functions: every file under every name, parsed once
InitParse ==
    /\ stored = [s \in Sessions |-> None]
    /\ prev = stored
    /\ solo = stored
    /\ \E f \in SpectrumFiles \cup CatalogFiles,
          n \in SpecNames \cup CatNames \cup OtherNames :
          call = [NoCall EXCEPT !.name = "pending", !.present = TRUE,
                                !.files = << f >>, !.filenames = << n >>]
    /\ raised = "none"
    /\ figure = no_figure
    /\ table = << >>
    /\ parsed = NoParse

NextParse == ProcessUpload

SpecParse == InitParse /\ [][NextParse]_vars
\* ------------------------------------------------------------------ claims
\* the record of the calling session before and after the last call
Before == prev[call.session]
After == stored[call.session]

CatalogsOf(data) == OrEmpty(data).catalogs
SpectrumOf(data) == OrEmpty(data).spectrum

IsUpload(name) == call.name = name /\ call.present

\* the parse of the uploaded spectrum, and of file i of the uploaded batch
SpectrumParse == Spectrum_from_upload(call.files[1], call.filenames[1])
CatalogParse(i) == Catalog_from_upload(call.files[i], call.filenames[i])

BatchWellFormed == \A i \in DOMAIN call.files : CatalogParse(i).raised = "none"

\* the last file of the batch that carries the molecule name of file i
LastNamed(i) ==
    CHOOSE j \in DOMAIN call.files :
        /\ molecule_of(call.filenames[j]) = molecule_of(call.filenames[i])
        /\ \A h \in DOMAIN call.files :
              molecule_of(call.filenames[h]) = molecule_of(call.filenames[i]) => h <= j

\* C1: a successfully parsed spectrum upload returns a record whose spectrum is
\* exactly the newly parsed Spectrum and whose catalogs mapping is the one the
\* session held before the call (empty when it held no record).
C1_SpectrumReplacedCatalogsKept ==
    (IsUpload("upload_spectrum") /\ SpectrumParse.raised = "none") =>
        /\ raised = "none"
        /\ After # None
        /\ SpectrumOf(After) = SpectrumParse.obj
        /\ CatalogsOf(After) = CatalogsOf(Before)

\* C1's case: a session holding a spectrum and catalogs uploads another spectrum
C1_Witness ==
    /\ IsUpload("upload_spectrum") /\ raised = "none"
    /\ Before # None /\ SpectrumOf(Before) # None
    /\ SpectrumOf(Before) # SpectrumOf(After)
    /\ Len(CatalogsOf(After)) = 2

\* C2: after upload_catalog with a batch of well-formed files the catalogs
\* mapping holds, for every uploaded file, an entry under its molecule name whose
\* value is the newly parsed catalog; every other entry is retained, the spectrum
\* is unchanged and every key is the molecule of its entry.
C2_BatchInstalled ==
    (IsUpload("upload_catalog") /\ BatchWellFormed) =>
        /\ raised = "none"
        /\ \A i \in DOMAIN call.files :
              /\ molecule_of(call.filenames[i]) \in DictKeys(CatalogsOf(After))
              /\ DictGet(CatalogsOf(After), molecule_of(call.filenames[i]))
                     = CatalogParse(LastNamed(i)).obj[1]
        /\ \A i \in DOMAIN CatalogsOf(Before) :
              CatalogsOf(Before)[i].key \notin {molecule_of(n) : n \in Range(call.filenames)}
                  => CatalogsOf(Before)[i] \in Range(CatalogsOf(After))
        /\ SpectrumOf(After) = SpectrumOf(Before)
        /\ \A i \in DOMAIN CatalogsOf(After) :
              CatalogsOf(After)[i].key = CatalogsOf(After)[i].val.molecule

\* C3: an upload that fails to parse leaves the stored record as it was.
UploadFailsToParse ==
    \/ IsUpload("upload_spectrum") /\ SpectrumParse.raised # "none"
    \/ IsUpload("upload_catalog") /\ ~BatchWellFormed

C3_FailedUploadInstallsNothing ==
    UploadFailsToParse => (raised # "none" /\ stored = prev)

\* C3's case: a spectrum that does not parse, sent by a session that holds a record
C3_Witness ==
    /\ IsUpload("upload_spectrum") /\ SpectrumParse.raised # "none"
    /\ Before # None /\ SpectrumOf(Before) # None /\ Len(CatalogsOf(Before)) > 0

\* C4: in a catalog batch a parse failure on one file does not abort the others:
\* every well-formed file of the batch is installed in the catalogs mapping.
C4_WellFormedFilesInstalled ==
    IsUpload("upload_catalog") =>
        \A i \in DOMAIN call.files :
            CatalogParse(i).raised = "none" =>
                molecule_of(call.filenames[i]) \in DictKeys(CatalogsOf(After))

C6_RowsOfFourFields ==
    (call.name = "update_table" /\ Len(CatalogsOf(After)) > 0) =>
        /\ raised = "none"
        /\ Len(table) = Len(CatalogsOf(After))
        /\ \A i \in DOMAIN table :
              DOMAIN table[i] = {"molecule", "temperature", "column_density", "doppler"}

\* C6 as amended: one row per catalog entry, each with exactly the fields
\* molecule, temperature, column_density, doppler and Q, holding that entry's
\* values; frequency, intensity and state_energies never appear in a row.
C6_RowsOfScalarFields ==
    (call.name = "update_table" /\ Len(CatalogsOf(After)) > 0) =>
        /\ raised = "none"
        /\ Len(table) = Len(CatalogsOf(After))
        /\ \A i \in DOMAIN table :
              /\ DOMAIN table[i] =
                    {"molecule", "temperature", "column_density", "doppler", "Q"}
              /\ DOMAIN table[i] \cap {"frequency", "intensity", "state_energies"} = { }
              /\ \A key \in DOMAIN table[i] : table[i][key] = CatalogsOf(After)[i].val[key]

C6_Witness ==
    /\ call.name = "update_table" /\ raised = "none"
    /\ Len(table) = 2

\* C7: a table edit fails with UnknownMolecule when the molecule is no key of the
\* catalogs mapping and with InvalidValue when the value is not positive, the
\* record unchanged in both cases; otherwise exactly that field of that catalog
\* changes. Every stored catalog's three parameters are positive.
PositiveNumber(n) == n.k = "pow10" \/ (n.k = "num" /\ n.v > 0)

C7_TableEdit ==
    /\ \A s \in Sessions : \A i \in DOMAIN CatalogsOf(stored[s]) :
          \A f \in EditedFields : PositiveNumber(CatalogsOf(stored[s])[i].val[f])
    /\ call.name = "edit_table" =>
          IF call.molecule \notin DictKeys(CatalogsOf(Before))
          THEN raised = "UnknownMolecule" /\ stored = prev
          ELSE IF call.value <= 0
          THEN raised = "InvalidValue" /\ stored = prev
          ELSE /\ raised = "none"
               /\ After =
                     Some([OrEmpty(Before) EXCEPT !.catalogs =
                        DictSet(@, call.molecule,
                                [DictGet(@, call.molecule) EXCEPT
                                    ![call.field] = Num(call.value)])])

\* C8: whatever the two sessions do and in whatever order, the record of each
\* is the one it would hold had it run alone, and a call of one session leaves
\* the record of the other as it was.
C8_SessionsIsolated ==
    /\ stored = solo
    /\ \A t \in Sessions : t # call.session => stored[t] = prev[t]

\* C8's case: both sessions hold a record, not the same one, after interleaved
\* uploads
C8_Witness ==
    /\ \A t \in Sessions : stored[t] # None
    /\ stored["tabA"] # stored["tabB"]
    /\ IsUpload("upload_spectrum") /\ raised = "none"
    /\ prev[call.session] # None

\* C9: a spectrum file of N >= 1 rows of numeric columns, with or without a
\* header row before them, parses to a Spectrum whose x and y have length N and
\* are the first two columns.
IsNumericRow(line) ==
    /\ Len(SplitTab(line)) >= 2
    /\ \A j \in DOMAIN SplitTab(line) : ParseField(Strip(SplitTab(line)[j])).k = "num"

NumericRows(file) == SelectSeq(file, IsNumericRow)

\* N numeric rows, all lines but perhaps a first header line
IsSpectrumFile(file) ==
    /\ Len(NumericRows(file)) >= 1
    /\ \/ NumericRows(file) = file
       \/ (~IsNumericRow(Head(file)) /\ NumericRows(file) = Tail(file)
           /\ Len(SplitTab(Head(file))) >= 2)

ParsedAsSpectrum ==
    /\ call.name = "process_upload"
    /\ \E i \in DOMAIN spec_ext : Contains(call.filenames[1], spec_ext[i])

C9_SpectrumRows ==
    (ParsedAsSpectrum /\ IsSpectrumFile(call.files[1])) =>
        LET rows == NumericRows(call.files[1])
        IN  /\ raised = "none"
            /\ parsed.spectrum # None
            /\ Len(parsed.spectrum[1].x) = Len(rows)
            /\ Len(parsed.spectrum[1].y) = Len(rows)
            /\ \A r \in DOMAIN rows :
                  /\ parsed.spectrum[1].x[r] = ParseField(SplitTab(rows[r])[1])
                  /\ parsed.spectrum[1].y[r] = ParseField(SplitTab(rows[r])[2])

\* C10: a catalog with a line too short for the 14 fields fails with a
\* malformed-record error and yields no Catalog; a catalog of N well-formed
\* lines yields three arrays of length N.
LineWidth == SumTo(widths, Len(widths))

ParsedAsCatalog ==
    /\ call.name = "process_upload"
    /\ ~ \E i \in DOMAIN spec_ext : Contains(call.filenames[1], spec_ext[i])
    /\ \E i \in DOMAIN cat_ext : Contains(call.filenames[1], cat_ext[i])

C10_ShortLineRejected ==
    ParsedAsCatalog =>
        LET file == call.files[1]
        IN  /\ (\E i \in DOMAIN file : Len(file[i]) < LineWidth) =>
                  (raised = "MalformedRecord" /\ parsed.catalog = None)
            /\ (file # << >> /\ \A i \in DOMAIN file : file[i] \in GoodLines) =>
                  /\ raised = "none"
                  /\ parsed.catalog # None
                  /\ Len(parsed.catalog[1].frequency) = Len(file)
                  /\ Len(parsed.catalog[1].intensity) = Len(file)
                  /\ Len(parsed.catalog[1].state_energies) = Len(file)

\* the name with any directory path cut off
PathStripped(filename) ==
    LET slashes == {i \in DOMAIN filename : filename[i] = "/"}
    IN  IF slashes = {} THEN filename
        ELSE LET last == CHOOSE i \in slashes : \A j \in slashes : j <= i
             IN  SubSeq(filename, last + 1, Len(filename))

\* the name with any directory path and its extension (the last dot and what
\* follows it) cut off
ExtensionStripped(filename) ==
    LET b == PathStripped(filename)
        dots == {i \in DOMAIN b : b[i] = "." /\ i > 1}
    IN  IF dots = {} THEN b
        ELSE LET last == CHOOSE i \in dots : \A j \in dots : j <= i
             IN  SubSeq(b, 1, last - 1)

\* C11: the Catalog made from an uploaded file has as molecule the filename with
\* its directory path and its extension cut off, so a file whose name differs
\* from it before the extension is keyed differently; the Spectrum made from an
\* uploaded file has the filename without its path (extension kept or cut) as
\* comment.
C11_StrippedNames ==
    /\ (ParsedAsCatalog /\ parsed.catalog # None) =>
          /\ parsed.catalog[1].molecule = ExtensionStripped(call.filenames[1])
          /\ \A other \in CatNames :
                ExtensionStripped(other) # ExtensionStripped(call.filenames[1]) =>
                    molecule_of(other) # parsed.catalog[1].molecule
    /\ (ParsedAsSpectrum /\ parsed.spectrum # None) =>
          parsed.spectrum[1].comment \in
              {PathStripped(call.filenames[1]), ExtensionStripped(call.filenames[1])}

\* a transition whose Doppler width is zero (doppler = 0 or frequency = 0) or
\* whose two Boltzmann factors in I2S are equal (its two state energies are the
\* same, which is frequency = 0 again)
Degenerate(cat_obj, i) ==
    \/ ClassOf(cat_obj.doppler) = "zero"
    \/ ClassOf(cat_obj.frequency[i]) = "zero"

\* every field of the catalog that synthesis reads is a number
AllNumbers(cat_obj) ==
    /\ \A i \in DOMAIN cat_obj.frequency :
          /\ ClassOf(cat_obj.frequency[i]) # "nan"
          /\ ClassOf(cat_obj.intensity[i]) # "nan"
          /\ ClassOfEnergy(cat_obj.state_energies[i]) # "nan"
    /\ ClassOf(cat_obj.temperature) = "fin"
    /\ ClassOf(cat_obj.column_density) = "fin"

\* C12: for a catalog with a numerically degenerate transition, on an axis with
\* at least one point, the synthesis does not abort, every value of the simulated series is finite (zero at every
\* axis point when no other transition is left), and a warning is attached to
\* the series.
C12_DegenerateTransitionGuarded ==
    (/\ call.name = "update_figure" /\ After # None /\ SpectrumOf(After) # None
     /\ SpectrumOf(After)[1].x # << >>) =>
        \A c \in DOMAIN CatalogsOf(After) :
            LET cat_obj == CatalogsOf(After)[c].val
                lines == DOMAIN cat_obj.frequency
            IN  (AllNumbers(cat_obj) /\ \E i \in lines : Degenerate(cat_obj, i)) =>
                    /\ raised = "none"
                    /\ Len(figure.data) > c
                    /\ \A p \in DOMAIN figure.data[c + 1].y :
                          /\ figure.data[c + 1].y[p] \in {"zero", "fin"}
                          /\ (\A i \in lines : Degenerate(cat_obj, i)) =>
                                figure.data[c + 1].y[p] = "zero"
                    /\ "warning" \in DOMAIN figure.data[c + 1]

\* C13: an upload callback fired with nothing uploaded (contents is None), be it
\* upload_spectrum or upload_catalog, signals PreventUpdate and nothing else,
\* and every stored session record is what it was.
C13_NoFileNoUpdate ==
    (call.name \in {"upload_spectrum", "upload_catalog"} /\ ~call.present) =>
        /\ raised = "PreventUpdate"
        /\ stored = prev
====
